---- MODULE Spec2Model ----
(***************************************************************************)
(* The go-v1 Sync protocol of the operation log (SyncGoV1): two Sync       *)
(* instances ("A" and "B") on the same log topic, plus one remote peer     *)
(* ("C") that is not under our control.  Every await of the source is a    *)
(* step boundary: a handler is one action per synchronous run.             *)
(***************************************************************************)
EXTENDS Integers, Sequences, FiniteSets, TLC

\* Bounds of the model.
MaxInputs == 4  \* application calls made plus network events delivered
MaxHeads == 2   \* entries returned by log.heads()

VARIABLES
  started,     \* [engine -> BOOLEAN]      `let started`
  handler,     \* [engine -> BOOLEAN]      PROTOCOL handler registered with libp2p
  listeners,   \* [engine -> SUBSET names] pubsub listeners attached
  subscribed,  \* [engine -> BOOLEAN]      pubsub.subscribe(address) in force
  peers,       \* [engine -> SUBSET peer]  `const peers = new Set()`
  queue,       \* [engine -> Seq(task)]    tasks waiting in the PQueue
  task,        \* [engine -> task state]   the one task the PQueue is running
  inbound,     \* [engine -> Seq(stream)]  handleReceiveHeads invocations in progress
  parsing,     \* [engine -> Seq(message)] handleUpdateMessage invocations awaiting parseMsg
  startPc,     \* [engine -> position of a startSync call]
  stopPc,      \* [engine -> position of a stopSync call]
  log,         \* [engine -> Seq(entry)]   what log.heads() returns
  synced,      \* [engine -> SUBSET bytes] every value onSynced was invoked with
  joined,      \* [engine -> SUBSET peer]  peers a join event was emitted for
  notified,    \* [engine -> SUBSET peer]  peers whose subscribe event reached handlePeerSubscribed
  owed,        \* [engine -> record]       tasks the last stop() found enqueued: how many, and how many are unfinished
  timers,      \* [engine -> Nat]          TimeoutControllers armed and not yet cleared
  nInputs,     \* application calls made and network events delivered so far
  last         \* the step just taken: the handler, its input and what it did

vars == <<started, handler, listeners, subscribed, peers, queue, task, inbound,
          parsing, startPc, stopPc, log, synced, joined, notified, owed,
          timers, nInputs, last>>

Engines == {"A", "B"}
Remote == "C"
PeerIds == Engines \cup {Remote}
NoPeer == "-"

address == "log"
OtherTopic == "other"
Topics == {address, OtherTopic}

PROTOCOL == "/go-orbit-db/direct-channel/1.2.0"
AllListeners == {"subscription-change", "message"}

(***************************************************************************)
(* Entries and their forms.  The signed fields of an entry are one value   *)
(* (body); its content identifier is a function of them.                   *)
(***************************************************************************)
Bodies == {"e1", "e2"}

\* Block.encode({value, codec: dagCbor, hasher: sha256}): bytes and cid of a value.
BlockBytes(body) == <<"dag-cbor", body>>
BlockCid(body) == <<"sha2-256", body>>
Cids == {BlockCid(b) : b \in Bodies}

\* cid.toString(base): the multibase string of a cid; CID.parse is its inverse.
CidToString(cid, base) == [base |-> base, cid |-> cid]
CidParse(str) == str.cid

\* A log entry: `entryGoV1` is attached only to entries of the go-v1 dialect.
Entries == [body : Bodies, goV1 : BOOLEAN]
NoGoV1 == [fields |-> <<"none", "-">>, hash |-> CidToString(<<"none", "-">>, "-")]
entryGoV1(entry) ==
  IF entry.goV1
    THEN [fields |-> <<"hex", entry.body>>,
          hash |-> CidToString(BlockCid(entry.body), "base32")]
    ELSE NoGoV1

\* EntryGoV1 -> EntryGoV1JSON: hex strings to bytes, the hash string to a CID.
toEntryGoV1JSONByEntryGoV1(g) ==
  [fields |-> <<"u8", g.fields[2]>>, hash |-> CidParse(g.hash)]

\* EntryGoV1JSON -> EntryGoV1: bytes to hex strings, the CID to a base32 string.
fromEntryGoV1JSONToEntryGoV1(j) ==
  [fields |-> <<"hex", j.fields[2]>>, hash |-> CidToString(j.hash, "base32")]

WireHeads == {[fields |-> <<"u8", b>>, hash |-> c] : b \in Bodies, c \in Cids}

(***************************************************************************)
(* The heads envelope and the go-v1 marshaler.                             *)
(***************************************************************************)
MapSeq(s, F(_)) == [i \in 1..Len(s) |-> F(s[i])]

HasGoV1(g) == g # NoGoV1

\* marshaler.marshal(msg) under 'go-v1': the JSON text of msg as bytes.
marshal(msg) == [kind |-> "json", address |-> msg.address, heads |-> msg.heads]
Garbage == [kind |-> "garbage", address |-> "", heads |-> <<>>]
\* data.byteLength of a payload: the JSON text grows with every head.
byteLength(payload) == IF payload.kind = "json" THEN 2 + Len(payload.heads) ELSE 1
\* marshaler.unmarshal(payload): JSON.parse throws on bytes that are no JSON.
unmarshalThrows(payload) == payload.kind # "json"
unmarshal(payload) == [address |-> payload.address, heads |-> payload.heads]

\* builderMsg without its `.filter(Boolean)`.
builderMsgUnfiltered(heads) ==
  marshal([address |-> address,
           heads |-> MapSeq(MapSeq(heads, entryGoV1), toEntryGoV1JSONByEntryGoV1)])

\* builderMsg(entry): `heads` is [entry] or log.heads().
builderMsg(heads) ==
  marshal([address |-> address,
           heads |-> MapSeq(SelectSeq(MapSeq(heads, entryGoV1), HasGoV1),
                            toEntryGoV1JSONByEntryGoV1)])

\* parseMsg: `if (address != address)` compares the envelope's own address,
\* which shadows the log's, with itself.
AddressDiffers(msgAddress) == msgAddress # msgAddress

\* One head of parseMsg's loop: the recomputed cid against the advertised hash.
HeadMatches(head) ==
  LET g == fromEntryGoV1JSONToEntryGoV1(head)
      entryHash == CidParse(g.hash)
  IN  entryHash = BlockCid(g.fields[2])

HeadBytes(head) == BlockBytes(fromEntryGoV1JSONToEntryGoV1(head).fields[2])

\* parseMsg with a `throw` where it has `continue`.
parseMsgThrowsOnMismatch(value) ==
  IF unmarshalThrows(value)
    THEN [threw |-> TRUE, heads |-> <<>>, errors |-> 0]
    ELSE LET msg == unmarshal(value)
         IN  IF AddressDiffers(msg.address)
               THEN [threw |-> FALSE, heads |-> <<>>, errors |-> 0]
               ELSE IF SelectSeq(msg.heads, HeadMatches) # msg.heads
                 THEN [threw |-> TRUE, heads |-> <<>>, errors |-> 0]
                 ELSE [threw |-> FALSE, heads |-> MapSeq(msg.heads, HeadBytes), errors |-> 0]

\* parseMsg(value): whether it threw, the bytes of the heads it accepted (in
\* order) and the error events it emitted.
parseMsg(value) ==
  IF unmarshalThrows(value)
    THEN [threw |-> TRUE, heads |-> <<>>, errors |-> 0]
    ELSE LET msg == unmarshal(value)
         IN  IF AddressDiffers(msg.address)
               THEN [threw |-> FALSE, heads |-> <<>>, errors |-> 0]
               ELSE [threw |-> FALSE,
                     heads |-> MapSeq(SelectSeq(msg.heads, HeadMatches), HeadBytes),
                     errors |-> Len(msg.heads) - Len(SelectSeq(msg.heads, HeadMatches))]

(***************************************************************************)
(* State of the engines.                                                   *)
(***************************************************************************)
NoTask == [kind |-> "none", peer |-> NoPeer, rest |-> <<>>]

\* What a step did: `pre` is the condition the handler branched on, `heads`
\* the entries builderMsg was given, `recv` the bytes parseMsg was given,
\* `result` the value a call returned.
Quiet == [op |-> "init", eng |-> NoPeer, peer |-> NoPeer, pre |-> FALSE,
          events |-> <<>>, dialed |-> {}, sent |-> <<>>, published |-> <<>>,
          synced |-> <<>>, did |-> {}, heads |-> <<>>, recv |-> <<>>,
          result |-> <<>>]
Step(op, e, p, pre) == [Quiet EXCEPT !.op = op, !.eng = e, !.peer = p, !.pre = pre]

RemoveAt(s, i) == [j \in 1..(Len(s) - 1) |-> IF j < i THEN s[j] ELSE s[j + 1]]
Dec(n) == IF n > 0 THEN n - 1 ELSE 0
Repeat(x, n) == [i \in 1..n |-> x]

RECURSIVE SeqsUpTo(_, _)
SeqsUpTo(S, n) ==
  IF n = 0 THEN {<<>>}
  ELSE LET shorter == SeqsUpTo(S, n - 1)
       IN  shorter \cup {Append(s, x) : s \in shorter, x \in S}

\* The state a `Sync({..., start})` call returns: startSync has run iff start !== false.
Constructed(startOpt, logs) ==
  /\ started = startOpt
  /\ handler = startOpt
  /\ listeners = [e \in Engines |-> IF startOpt[e] THEN AllListeners ELSE {}]
  /\ subscribed = startOpt
  /\ peers = [e \in Engines |-> {}]
  /\ queue = [e \in Engines |-> <<>>]
  /\ task = [e \in Engines |-> NoTask]
  /\ inbound = [e \in Engines |-> <<>>]
  /\ parsing = [e \in Engines |-> <<>>]
  /\ startPc = [e \in Engines |-> "idle"]
  /\ stopPc = [e \in Engines |-> "idle"]
  /\ log = logs
  /\ synced = [e \in Engines |-> {}]
  /\ joined = [e \in Engines |-> {}]
  /\ notified = [e \in Engines |-> {}]
  /\ owed = [e \in Engines |-> [total |-> 0, left |-> 0]]
  /\ timers = [e \in Engines |-> 0]
  /\ nInputs = 0
  /\ last = Quiet

GoV1Entry(b) == [body |-> b, goV1 |-> TRUE]

\* Spec: engine "A" with its whole life cycle, against instance "B" as
\* constructed with start: false and the remote peer.
Init ==
  \E startA \in BOOLEAN :
    Constructed([e \in Engines |-> e = "A" /\ startA],
                [e \in Engines |-> <<GoV1Entry(IF e = "A" THEN "e1" ELSE "e2")>>])

\* The application awaits one start()/stop() before it makes the next.
CallFree(e) == startPc[e] = "idle" /\ stopPc[e] = "idle"

(***************************************************************************)
(* start() and stop().                                                     *)
(***************************************************************************)
\* startSync without its `if (!started)`.
startSyncUnguarded(e) ==
  /\ nInputs < MaxInputs
  /\ CallFree(e)
  /\ nInputs' = nInputs + 1
  /\ handler' = [handler EXCEPT ![e] = TRUE]
  /\ startPc' = [startPc EXCEPT ![e] = "handle"]
  /\ last' = [Step("start", e, NoPeer, started[e]) EXCEPT !.did = {"handle"}]
  /\ UNCHANGED <<timers, started, listeners, subscribed, peers, queue, task, inbound,
                 parsing, stopPc, log, synced, joined, notified, owed>>

\* start(): `if (!started)`, then libp2p.handle(PROTOCOL, handleReceiveHeads).
startSync(e) ==
  /\ nInputs < MaxInputs
  /\ CallFree(e)
  /\ nInputs' = nInputs + 1
  /\ IF ~started[e]
       THEN /\ handler' = [handler EXCEPT ![e] = TRUE]
            /\ startPc' = [startPc EXCEPT ![e] = "handle"]
            /\ last' = [Step("start", e, NoPeer, started[e]) EXCEPT !.did = {"handle"}]
       ELSE /\ UNCHANGED <<handler, startPc>>
            /\ last' = Step("start", e, NoPeer, started[e])
  /\ UNCHANGED <<timers, started, listeners, subscribed, peers, queue, task, inbound,
                 parsing, stopPc, log, synced, joined, notified, owed>>

\* libp2p.handle has resolved: attach the listeners and subscribe.
startSyncListen(e) ==
  /\ startPc[e] = "handle"
  /\ listeners' = [listeners EXCEPT ![e] = @ \cup AllListeners]
  /\ subscribed' = [subscribed EXCEPT ![e] = TRUE]
  /\ startPc' = [startPc EXCEPT ![e] = "subscribe"]
  /\ last' = [Step("start:listen", e, NoPeer, started[e]) EXCEPT !.did = {"listen", "subscribe"}]
  /\ UNCHANGED <<timers, started, handler, peers, queue, task, inbound, parsing, stopPc,
                 log, synced, joined, notified, owed, nInputs>>

\* pubsub.subscribe has resolved: `started = true`, and start() returns.
startSyncDone(e) ==
  /\ startPc[e] = "subscribe"
  /\ started' = [started EXCEPT ![e] = TRUE]
  /\ startPc' = [startPc EXCEPT ![e] = "idle"]
  /\ last' = Step("start:done", e, NoPeer, started[e])
  /\ UNCHANGED <<timers, handler, listeners, subscribed, peers, queue, task, inbound,
                 parsing, stopPc, log, synced, joined, notified, owed, nInputs>>

Running(e) == IF task[e] = NoTask THEN 0 ELSE 1
QueueIdle(e) == queue[e] = <<>> /\ task[e] = NoTask

\* stop(): `if (started)`, then `started = false` and queue.onIdle().
stopSync(e) ==
  /\ nInputs < MaxInputs
  /\ CallFree(e)
  /\ nInputs' = nInputs + 1
  /\ IF started[e]
       THEN /\ started' = [started EXCEPT ![e] = FALSE]
            /\ stopPc' = [stopPc EXCEPT ![e] = "drain"]
            /\ owed' = [owed EXCEPT ![e] = [total |-> Len(queue[e]) + Running(e),
                                              left |-> Len(queue[e]) + Running(e)]]
       ELSE UNCHANGED <<started, stopPc, owed>>
  /\ last' = Step("stop", e, NoPeer, started[e])
  /\ UNCHANGED <<timers, handler, listeners, subscribed, peers, queue, task, inbound,
                 parsing, startPc, log, synced, joined, notified>>

\* stopSync without its `await queue.onIdle()`.
stopSyncDrainedImpatient(e) ==
  /\ stopPc[e] = "drain"
  /\ listeners' = [listeners EXCEPT ![e] = {}]
  /\ handler' = [handler EXCEPT ![e] = FALSE]
  /\ stopPc' = [stopPc EXCEPT ![e] = "unhandle"]
  /\ last' = [Step("stop:drained", e, NoPeer, started[e]) EXCEPT !.did = {"unlisten", "unhandle"}]
  /\ UNCHANGED <<timers, started, subscribed, peers, queue, task, inbound, parsing,
                 startPc, log, synced, joined, notified, owed, nInputs>>

\* queue.onIdle() has resolved: remove the listeners and unhandle the protocol.
stopSyncDrained(e) ==
  /\ stopPc[e] = "drain"
  /\ QueueIdle(e)
  /\ listeners' = [listeners EXCEPT ![e] = {}]
  /\ handler' = [handler EXCEPT ![e] = FALSE]
  /\ stopPc' = [stopPc EXCEPT ![e] = "unhandle"]
  /\ last' = [Step("stop:drained", e, NoPeer, started[e]) EXCEPT !.did = {"unlisten", "unhandle"}]
  /\ UNCHANGED <<timers, started, subscribed, peers, queue, task, inbound, parsing,
                 startPc, log, synced, joined, notified, owed, nInputs>>

\* libp2p.unhandle has resolved: unsubscribe.
stopSyncUnsubscribe(e) ==
  /\ stopPc[e] = "unhandle"
  /\ subscribed' = [subscribed EXCEPT ![e] = FALSE]
  /\ stopPc' = [stopPc EXCEPT ![e] = "unsubscribe"]
  /\ last' = [Step("stop:unsubscribe", e, NoPeer, started[e]) EXCEPT !.did = {"unsubscribe"}]
  /\ UNCHANGED <<timers, started, handler, listeners, peers, queue, task, inbound,
                 parsing, startPc, log, synced, joined, notified, owed, nInputs>>

\* stopSync without its peers.clear().
stopSyncDoneKeepsPeers(e) ==
  /\ stopPc[e] = "unsubscribe"
  /\ stopPc' = [stopPc EXCEPT ![e] = "idle"]
  /\ last' = Step("stop:done", e, NoPeer, peers[e] # {})
  /\ UNCHANGED <<timers, started, handler, listeners, subscribed, peers, queue, task, inbound,
                 parsing, startPc, log, synced, joined, notified, owed, nInputs>>

\* pubsub.unsubscribe has resolved: peers.clear(), and stop() returns.
stopSyncDone(e) ==
  /\ stopPc[e] = "unsubscribe"
  /\ peers' = [peers EXCEPT ![e] = {}]
  /\ stopPc' = [stopPc EXCEPT ![e] = "idle"]
  /\ last' = Step("stop:done", e, NoPeer, peers[e] # {})
  /\ UNCHANGED <<timers, started, handler, listeners, subscribed, queue, task, inbound,
                 parsing, startPc, log, synced, joined, notified, owed, nInputs>>

\* add without its `if (started)`.
addUnguarded(e, entry) ==
  /\ nInputs < MaxInputs
  /\ nInputs' = nInputs + 1
  /\ last' = [Step("add", e, NoPeer, started[e]) EXCEPT
                !.heads = <<entry>>,
                !.published = <<[topic |-> address, data |-> builderMsg(<<entry>>)]>>]
  /\ UNCHANGED <<timers, started, handler, listeners, subscribed, peers, queue, task,
                 inbound, parsing, startPc, stopPc, log, synced, joined,
                 notified, owed>>

\* add(entry): publish a one-head envelope when started.
add(e, entry) ==
  /\ nInputs < MaxInputs
  /\ nInputs' = nInputs + 1
  /\ last' = [Step("add", e, NoPeer, started[e]) EXCEPT
                !.heads = <<entry>>,
                !.published = IF started[e]
                                THEN <<[topic |-> address, data |-> builderMsg(<<entry>>)]>>
                                ELSE <<>>]
  /\ UNCHANGED <<timers, started, handler, listeners, subscribed, peers, queue, task,
                 inbound, parsing, startPc, stopPc, log, synced, joined,
                 notified, owed>>

(***************************************************************************)
(* Subscription changes and the work queue.                                *)
(***************************************************************************)
SubTask(p, topic, sub) ==
  [kind |-> "sub", peer |-> p, topic |-> topic, subscribe |-> sub, heads |-> <<>>]
UpdTask(heads) ==
  [kind |-> "upd", peer |-> NoPeer, topic |-> address, subscribe |-> FALSE, heads |-> heads]

\* pubsub only reports what the peer did: an engine's subscription state is its own.
Truthful(p, topic, sub) ==
  p \in Engines => (topic = address /\ sub = subscribed[p])

\* A 'subscription-change' event about peer p reaches engine e: the listener,
\* when attached, is handlePeerSubscribed, which adds its task to the queue.
handlePeerSubscribed(e, p, topic, sub) ==
  /\ nInputs < MaxInputs
  /\ p # e
  /\ Truthful(p, topic, sub)
  /\ nInputs' = nInputs + 1
  /\ IF "subscription-change" \in listeners[e]
       THEN /\ queue' = [queue EXCEPT ![e] = Append(@, SubTask(p, topic, sub))]
            /\ notified' = [notified EXCEPT ![e] =
                              IF sub /\ topic = address THEN @ \cup {p} ELSE @]
       ELSE UNCHANGED <<queue, notified>>
  /\ last' = Step("subscription-change", e, p, "subscription-change" \in listeners[e])
  /\ UNCHANGED <<timers, started, handler, listeners, subscribed, peers, task, inbound,
                 parsing, startPc, stopPc, log, synced, joined, owed>>

\* The task of handlePeerSubscribed without the peers.delete(peerId) of its
\* unsubscribe branch.
subscribeTaskKeepsLeaver(e, t) ==
  LET p == t.peer IN
  IF t.topic # address
    THEN /\ task' = [task EXCEPT ![e] = NoTask]
         /\ owed' = [owed EXCEPT ![e].left = Dec(@)]
         /\ last' = Step("task:other-topic", e, p, FALSE)
         /\ UNCHANGED <<peers, joined, timers>>
  ELSE IF t.subscribe
    THEN IF p \in peers[e]
           THEN /\ task' = [task EXCEPT ![e] = NoTask]
                /\ owed' = [owed EXCEPT ![e].left = Dec(@)]
                /\ last' = Step("task:subscribe", e, p, TRUE)
                /\ UNCHANGED <<peers, joined, timers>>
           ELSE /\ peers' = [peers EXCEPT ![e] = @ \cup {p}]
                /\ task' = [task EXCEPT ![e] = [kind |-> "dial", peer |-> p, rest |-> <<>>]]
                /\ last' = [Step("task:subscribe", e, p, FALSE) EXCEPT !.dialed = {p}]
                /\ timers' = [timers EXCEPT ![e] = @ + 1]
                /\ UNCHANGED <<owed, joined>>
    ELSE /\ joined' = [joined EXCEPT ![e] = @ \ {p}]
         /\ task' = [task EXCEPT ![e] = NoTask]
         /\ owed' = [owed EXCEPT ![e].left = Dec(@)]
         /\ last' = [Step("task:unsubscribe", e, p, p \in peers[e]) EXCEPT !.events = <<"leave">>]
         /\ UNCHANGED <<peers, timers>>

\* The task of handlePeerSubscribed without its `if (peers.has(peerId)) return`.
subscribeTaskNoDedup(e, t) ==
  LET p == t.peer IN
  IF t.topic # address
    THEN /\ task' = [task EXCEPT ![e] = NoTask]
         /\ owed' = [owed EXCEPT ![e].left = Dec(@)]
         /\ last' = Step("task:other-topic", e, p, FALSE)
         /\ UNCHANGED <<peers, joined, timers>>
  ELSE IF t.subscribe
    THEN /\ peers' = [peers EXCEPT ![e] = @ \cup {p}]
         /\ task' = [task EXCEPT ![e] = [kind |-> "dial", peer |-> p, rest |-> <<>>]]
         /\ last' = [Step("task:subscribe", e, p, p \in peers[e]) EXCEPT !.dialed = {p}]
         /\ timers' = [timers EXCEPT ![e] = @ + 1]
         /\ UNCHANGED <<owed, joined>>
    ELSE /\ peers' = [peers EXCEPT ![e] = @ \ {p}]
         /\ joined' = [joined EXCEPT ![e] = @ \ {p}]
         /\ task' = [task EXCEPT ![e] = NoTask]
         /\ owed' = [owed EXCEPT ![e].left = Dec(@)]
         /\ last' = [Step("task:unsubscribe", e, p, p \in peers[e]) EXCEPT !.events = <<"leave">>]
         /\ UNCHANGED timers

\* The task of handlePeerSubscribed up to its first await (or its end).
subscribeTask(e, t) ==
  LET p == t.peer IN
  IF t.topic # address
    THEN \* no subscription for this log's topic
         /\ task' = [task EXCEPT ![e] = NoTask]
         /\ owed' = [owed EXCEPT ![e].left = Dec(@)]
         /\ last' = Step("task:other-topic", e, p, FALSE)
         /\ UNCHANGED <<peers, joined, timers>>
  ELSE IF t.subscribe
    THEN IF p \in peers[e]
           THEN /\ task' = [task EXCEPT ![e] = NoTask]
                /\ owed' = [owed EXCEPT ![e].left = Dec(@)]
                /\ last' = Step("task:subscribe", e, p, TRUE)
                /\ UNCHANGED <<peers, joined, timers>>
           ELSE \* peers.add(peerId); libp2p.dialProtocol(...)
                /\ peers' = [peers EXCEPT ![e] = @ \cup {p}]
                /\ task' = [task EXCEPT ![e] = [kind |-> "dial", peer |-> p, rest |-> <<>>]]
                /\ last' = [Step("task:subscribe", e, p, FALSE) EXCEPT !.dialed = {p}]
                /\ timers' = [timers EXCEPT ![e] = @ + 1]
                /\ UNCHANGED <<owed, joined>>
    ELSE /\ peers' = [peers EXCEPT ![e] = @ \ {p}]
         /\ joined' = [joined EXCEPT ![e] = @ \ {p}]
         /\ task' = [task EXCEPT ![e] = NoTask]
         /\ owed' = [owed EXCEPT ![e].left = Dec(@)]
         /\ last' = [Step("task:unsubscribe", e, p, p \in peers[e]) EXCEPT !.events = <<"leave">>]
         /\ UNCHANGED timers

\* The task of handleUpdateMessage iterating entrysBytes from its end.
updateTaskLastFirst(e, t) ==
  /\ IF t.heads = <<>>
       THEN /\ task' = [task EXCEPT ![e] = NoTask]
            /\ owed' = [owed EXCEPT ![e].left = Dec(@)]
            /\ last' = Step("task:update", e, NoPeer, started[e])
            /\ UNCHANGED synced
       ELSE /\ task' = [task EXCEPT ![e] = [kind |-> "upd", peer |-> NoPeer,
                                             rest |-> SubSeq(t.heads, 1, Len(t.heads) - 1)]]
            /\ synced' = [synced EXCEPT ![e] = @ \cup {t.heads[Len(t.heads)]}]
            /\ last' = [Step("task:update", e, NoPeer, started[e]) EXCEPT
                          !.synced = <<t.heads[Len(t.heads)]>>]
            /\ UNCHANGED owed
  /\ UNCHANGED <<peers, joined, timers>>

\* The task of handleUpdateMessage up to its first await: onSynced(first head).
updateTask(e, t) ==
  /\ IF t.heads = <<>>
       THEN /\ task' = [task EXCEPT ![e] = NoTask]
            /\ owed' = [owed EXCEPT ![e].left = Dec(@)]
            /\ last' = Step("task:update", e, NoPeer, started[e])
            /\ UNCHANGED synced
       ELSE /\ task' = [task EXCEPT ![e] = [kind |-> "upd", peer |-> NoPeer, rest |-> Tail(t.heads)]]
            /\ synced' = [synced EXCEPT ![e] = @ \cup {Head(t.heads)}]
            /\ last' = [Step("task:update", e, NoPeer, started[e]) EXCEPT !.synced = <<Head(t.heads)>>]
            /\ UNCHANGED owed
  /\ UNCHANGED <<peers, joined, timers>>

\* A PQueue without its concurrency limit: the next task starts at once.
runTaskConcurrent(e) ==
  /\ queue[e] # <<>>
  /\ queue' = [queue EXCEPT ![e] = Tail(@)]
  /\ IF Head(queue[e]).kind = "sub"
       THEN subscribeTask(e, Head(queue[e])) /\ UNCHANGED synced
       ELSE updateTask(e, Head(queue[e]))
  /\ UNCHANGED <<started, handler, listeners, subscribed, inbound, parsing,
                 startPc, stopPc, log, notified, nInputs>>

\* PQueue({concurrency: 1}): the next task starts when none is running.
runTask(e) ==
  /\ task[e] = NoTask
  /\ queue[e] # <<>>
  /\ queue' = [queue EXCEPT ![e] = Tail(@)]
  /\ IF Head(queue[e]).kind = "sub"
       THEN subscribeTask(e, Head(queue[e])) /\ UNCHANGED synced
       ELSE updateTask(e, Head(queue[e]))
  /\ UNCHANGED <<started, handler, listeners, subscribed, inbound, parsing,
                 startPc, stopPc, log, notified, nInputs>>

\* A stream being read: pc is "pending" (no frame yet), "data" (both frames
\* written), "ended" (closed without frames) or "deliver" (awaiting onSynced).
\* `len` is the length the first frame announces, `data` the second frame.
NewStream(from) ==
  [from |-> from, pc |-> "pending", len |-> 0, data |-> Garbage, rest |-> <<>>]

\* The handler libp2p invokes on an accepted stream, up to its first await:
\* handleReceiveHeads does peers.add(peerId) and waits for the first frame.
handleReceiveHeads(r, from, stream) ==
  /\ peers' = [peers EXCEPT ![r] = @ \cup {from}]
  /\ inbound' = [inbound EXCEPT ![r] = Append(@, stream)]

\* dialProtocol resolves with a stream: the remote handler is invoked.
dialOk(e) ==
  LET p == task[e].peer IN
  /\ task[e].kind = "dial"
  /\ p \in Engines => handler[p]
  /\ task' = [task EXCEPT ![e] = [kind |-> "send", peer |-> p, rest |-> <<>>]]
  /\ IF p \in Engines
       THEN handleReceiveHeads(p, e, NewStream(e))
       ELSE UNCHANGED <<peers, inbound>>
  /\ last' = Step("dial:ok", e, p, TRUE)
  /\ UNCHANGED <<timers, started, handler, listeners, subscribed, queue, parsing, startPc,
                 stopPc, log, synced, joined, notified, owed, nInputs>>

\* The catch of handlePeerSubscribed without its test of e.code.
dialUnsupportedReported(e) ==
  LET p == task[e].peer IN
  /\ task[e].kind = "dial"
  /\ p \in Engines => ~handler[p]
  /\ peers' = [peers EXCEPT ![e] = @ \ {p}]
  /\ task' = [task EXCEPT ![e] = NoTask]
  /\ owed' = [owed EXCEPT ![e].left = Dec(@)]
  /\ timers' = [timers EXCEPT ![e] = Dec(@)]
  /\ last' = [Step("dial:unsupported", e, p, FALSE) EXCEPT !.events = <<"error">>]
  /\ UNCHANGED <<started, handler, listeners, subscribed, queue, inbound, parsing,
                 startPc, stopPc, log, synced, joined, notified, nInputs>>

\* dialProtocol rejects with ERR_UNSUPPORTED_PROTOCOL: the peer has no handler.
dialUnsupported(e) ==
  LET p == task[e].peer IN
  /\ task[e].kind = "dial"
  /\ p \in Engines => ~handler[p]
  /\ peers' = [peers EXCEPT ![e] = @ \ {p}]
  /\ task' = [task EXCEPT ![e] = NoTask]
  /\ owed' = [owed EXCEPT ![e].left = Dec(@)]
  /\ timers' = [timers EXCEPT ![e] = Dec(@)]
  /\ last' = Step("dial:unsupported", e, p, FALSE)
  /\ UNCHANGED <<started, handler, listeners, subscribed, queue, inbound, parsing,
                 startPc, stopPc, log, synced, joined, notified, nInputs>>

DialErrors == {"timeout", "error"}

\* The catch of handlePeerSubscribed without its peers.delete(peerId).
dialFailedKeepsPeer(e, why) ==
  LET p == task[e].peer IN
  /\ task[e].kind = "dial"
  /\ task' = [task EXCEPT ![e] = NoTask]
  /\ owed' = [owed EXCEPT ![e].left = Dec(@)]
  /\ timers' = [timers EXCEPT ![e] = Dec(@)]
  /\ last' = [Step("dial:" \o why, e, p, FALSE) EXCEPT !.events = <<"error">>]
  /\ UNCHANGED <<started, handler, listeners, subscribed, peers, queue, inbound, parsing,
                 startPc, stopPc, log, synced, joined, notified, nInputs>>

\* handlePeerSubscribed with timeoutController.clear() at the end of its
\* `try` instead of in a `finally`.
dialFailedKeepsTimer(e, why) ==
  LET p == task[e].peer IN
  /\ task[e].kind = "dial"
  /\ peers' = [peers EXCEPT ![e] = @ \ {p}]
  /\ task' = [task EXCEPT ![e] = NoTask]
  /\ owed' = [owed EXCEPT ![e].left = Dec(@)]
  /\ last' = [Step("dial:" \o why, e, p, FALSE) EXCEPT !.events = <<"error">>]
  /\ UNCHANGED <<timers, started, handler, listeners, subscribed, queue, inbound, parsing,
                 startPc, stopPc, log, synced, joined, notified, nInputs>>

\* dialProtocol rejects with another error, or the TimeoutController aborts it.
dialFailed(e, why) ==
  LET p == task[e].peer IN
  /\ task[e].kind = "dial"
  /\ peers' = [peers EXCEPT ![e] = @ \ {p}]
  /\ task' = [task EXCEPT ![e] = NoTask]
  /\ owed' = [owed EXCEPT ![e].left = Dec(@)]
  /\ timers' = [timers EXCEPT ![e] = Dec(@)]
  /\ last' = [Step("dial:" \o why, e, p, FALSE) EXCEPT !.events = <<"error">>]
  /\ UNCHANGED <<started, handler, listeners, subscribed, queue, inbound, parsing,
                 startPc, stopPc, log, synced, joined, notified, nInputs>>

\* The stream e opened to p whose frames have not been written yet.
PendingFrom(p, e) ==
  {i \in 1..Len(inbound[p]) : inbound[p][i].from = e /\ inbound[p][i].pc = "pending"}

\* pipe(sendHeads, stream) resolves: both frames of builderMsg() are written.
sendOk(e) ==
  LET p == task[e].peer
      data == builderMsg(log[e])
  IN
  /\ task[e].kind = "send"
  /\ task' = [task EXCEPT ![e] = NoTask]
  /\ owed' = [owed EXCEPT ![e].left = Dec(@)]
  /\ timers' = [timers EXCEPT ![e] = Dec(@)]
  /\ IF p \in Engines
       THEN \E i \in PendingFrom(p, e) :
              inbound' = [inbound EXCEPT ![p][i].pc = "data", ![p][i].data = data,
                                         ![p][i].len = byteLength(data)]
       ELSE UNCHANGED inbound
  /\ last' = [Step("send:ok", e, p, TRUE) EXCEPT !.sent = <<data>>, !.heads = log[e]]
  /\ UNCHANGED <<started, handler, listeners, subscribed, peers, queue, parsing,
                 startPc, stopPc, log, synced, joined, notified, nInputs>>

\* pipe(sendHeads, stream) rejects: the stream ends without its frames.
sendFailed(e) ==
  LET p == task[e].peer IN
  /\ task[e].kind = "send"
  /\ peers' = [peers EXCEPT ![e] = @ \ {p}]
  /\ task' = [task EXCEPT ![e] = NoTask]
  /\ owed' = [owed EXCEPT ![e].left = Dec(@)]
  /\ timers' = [timers EXCEPT ![e] = Dec(@)]
  /\ IF p \in Engines
       THEN \E i \in PendingFrom(p, e) :
              inbound' = [inbound EXCEPT ![p][i].pc = "ended"]
       ELSE UNCHANGED inbound
  /\ last' = [Step("send:error", e, p, FALSE) EXCEPT !.events = <<"error">>]
  /\ UNCHANGED <<started, handler, listeners, subscribed, queue, parsing, startPc,
                 stopPc, log, synced, joined, notified, nInputs>>

\* The awaited onSynced of an update task returns (ok) or throws.
updateDelivered(e, ok) ==
  /\ task[e].kind = "upd"
  /\ IF ok /\ task[e].rest # <<>>
       THEN /\ task' = [task EXCEPT ![e].rest = Tail(@)]
            /\ synced' = [synced EXCEPT ![e] = @ \cup {Head(task[e].rest)}]
            /\ last' = [Step("update:next", e, NoPeer, started[e]) EXCEPT
                          !.synced = <<Head(task[e].rest)>>]
            /\ UNCHANGED owed
       ELSE /\ task' = [task EXCEPT ![e] = NoTask]
            /\ owed' = [owed EXCEPT ![e].left = Dec(@)]
            /\ last' = [Step("update:end", e, NoPeer, started[e]) EXCEPT
                          !.events = IF ok THEN <<>> ELSE <<"error">>]
            /\ UNCHANGED synced
  /\ UNCHANGED <<timers, started, handler, listeners, subscribed, peers, queue, inbound,
                 parsing, startPc, stopPc, log, joined, notified, nInputs>>

(***************************************************************************)
(* Inbound head exchange.                                                  *)
(***************************************************************************)
\* The end of receiveHeads without its `if (started)`.
JoinAlways(r) == <<"join">>

\* The end of receiveHeads: `if (started) await onPeerJoined(peerId)`.
JoinIfStarted(r) == IF started[r] THEN <<"join">> ELSE <<>>

\* What receiveHeads hands to parseMsg: the data frame, if the stream had one.
Received(s) ==
  IF s.pc = "data"
    THEN <<[via |-> "stream", topic |-> address, len |-> s.len, data |-> s.data]>>
    ELSE <<>>

\* receiveHeads reads the two frames, parses the envelope and hands the first
\* accepted head to onSynced; a throw is caught by handleReceiveHeads.
receiveHeads(r, i) ==
  LET s == inbound[r][i]
      res == parseMsg(s.data)
  IN
  /\ i \in 1..Len(inbound[r])
  /\ s.pc \in {"data", "ended"}
  /\ IF s.pc = "ended" \/ res.threw
       THEN /\ inbound' = [inbound EXCEPT ![r] = RemoveAt(@, i)]
            /\ peers' = [peers EXCEPT ![r] = @ \ {s.from}]
            /\ last' = [Step("receive:throw", r, s.from, started[r]) EXCEPT
                          !.events = <<"error">>, !.recv = Received(s),
                          !.did = {"source.return"}]
            /\ UNCHANGED <<synced, joined>>
       ELSE IF res.heads = <<>>
         THEN /\ inbound' = [inbound EXCEPT ![r] = RemoveAt(@, i)]
              /\ joined' = [joined EXCEPT ![r] = IF started[r] THEN @ \cup {s.from} ELSE @]
              /\ last' = [Step("receive:end", r, s.from, started[r]) EXCEPT
                            !.events = Repeat("error", res.errors) \o JoinIfStarted(r),
                            !.recv = Received(s),
                            !.did = {"source.return"}]
              /\ UNCHANGED <<synced, peers>>
         ELSE /\ inbound' = [inbound EXCEPT ![r][i].pc = "deliver",
                                            ![r][i].rest = Tail(res.heads)]
              /\ synced' = [synced EXCEPT ![r] = @ \cup {Head(res.heads)}]
              /\ last' = [Step("receive:heads", r, s.from, started[r]) EXCEPT
                            !.events = Repeat("error", res.errors),
                            !.synced = <<Head(res.heads)>>,
                            !.recv = Received(s)]
              /\ UNCHANGED <<peers, joined>>
  /\ UNCHANGED <<timers, started, handler, listeners, subscribed, queue, task, parsing,
                 startPc, stopPc, log, notified, owed, nInputs>>

\* The awaited onSynced of receiveHeads returns (ok) or throws.
receiveDelivered(r, i, ok) ==
  LET s == inbound[r][i] IN
  /\ i \in 1..Len(inbound[r])
  /\ s.pc = "deliver"
  /\ IF ~ok
       THEN /\ inbound' = [inbound EXCEPT ![r] = RemoveAt(@, i)]
            /\ peers' = [peers EXCEPT ![r] = @ \ {s.from}]
            /\ last' = [Step("receive:throw", r, s.from, started[r]) EXCEPT
                          !.events = <<"error">>, !.did = {"source.return"}]
            /\ UNCHANGED <<synced, joined>>
       ELSE IF s.rest = <<>>
         THEN /\ inbound' = [inbound EXCEPT ![r] = RemoveAt(@, i)]
              /\ joined' = [joined EXCEPT ![r] = IF started[r] THEN @ \cup {s.from} ELSE @]
              /\ last' = [Step("receive:end", r, s.from, started[r]) EXCEPT
                            !.events = JoinIfStarted(r), !.did = {"source.return"}]
              /\ UNCHANGED <<synced, peers>>
         ELSE /\ inbound' = [inbound EXCEPT ![r][i].rest = Tail(@)]
              /\ synced' = [synced EXCEPT ![r] = @ \cup {Head(s.rest)}]
              /\ last' = [Step("receive:next", r, s.from, started[r]) EXCEPT
                            !.synced = <<Head(s.rest)>>]
              /\ UNCHANGED <<peers, joined>>
  /\ UNCHANGED <<timers, started, handler, listeners, subscribed, queue, task, parsing,
                 startPc, stopPc, log, notified, owed, nInputs>>

\* What the remote peer puts on the wire: bytes that are no envelope, and an
\* envelope of three heads whose second advertises the hash of another entry.
WireHead(b, c) == [fields |-> <<"u8", b>>, hash |-> BlockCid(c)]
Payloads ==
  {Garbage,
   marshal([address |-> address,
            heads |-> <<WireHead("e1", "e1"), WireHead("e1", "e2"), WireHead("e2", "e2")>>])}

\* The remote peer opens a stream under PROTOCOL and writes its frames (or
\* closes without any); `wrong` when the length it announces is not that of
\* the data frame.
remoteStream(e, pc, data, wrong) ==
  /\ nInputs < MaxInputs
  /\ handler[e]
  /\ pc = "ended" => (data = Garbage /\ ~wrong)
  /\ nInputs' = nInputs + 1
  /\ handleReceiveHeads(e, Remote,
        [NewStream(Remote) EXCEPT
           !.pc = pc, !.data = data,
           !.len = IF pc = "ended" THEN 0
                   ELSE IF wrong THEN byteLength(data) + 1 ELSE byteLength(data)])
  /\ last' = Step("stream", e, Remote, started[e])
  /\ UNCHANGED <<timers, started, handler, listeners, subscribed, queue, task, parsing,
                 startPc, stopPc, log, synced, joined, notified, owed>>

(***************************************************************************)
(* The direct channel.                                                     *)
(***************************************************************************)
\* DirectChannel.handle on a stream of two frames: 'channel-message' is
\* emitted unless `len != data?.byteLength`; the pipe resolves and the stream
\* is closed.
DirectChannelHandle(from, len, data) ==
  /\ nInputs < MaxInputs
  /\ nInputs' = nInputs + 1
  /\ last' = [Step("channel", NoPeer, from, len = byteLength(data)) EXCEPT
                !.events = IF len # byteLength(data) THEN <<>> ELSE <<"channel-message">>,
                !.recv = <<[via |-> "channel", topic |-> address, len |-> len, data |-> data]>>,
                !.did = {"source.return", "stream.close"}]
  /\ UNCHANGED <<timers, started, handler, listeners, subscribed, peers, queue, task,
                 inbound, parsing, startPc, stopPc, log, synced, joined,
                 notified, owed>>

\* DirectChannel.handle on a stream that ends before its frames: the read
\* of `length.subarray()` throws inside the pipe, the pipe rejects and the
\* `stream.close()` that follows it is not reached.
DirectChannelHandleThrows(from) ==
  /\ nInputs < MaxInputs
  /\ nInputs' = nInputs + 1
  /\ last' = Step("channel:throw", NoPeer, from, FALSE)
  /\ UNCHANGED <<timers, started, handler, listeners, subscribed, peers, queue, task,
                 inbound, parsing, startPc, stopPc, log, synced, joined,
                 notified, owed>>

\* DirectChannel.send once dialProtocol has resolved with a stream: the two
\* frames are written and the stream is closed, or the pipe rejects and
\* send rejects with it.
DirectChannelSend(to, data, wrote) ==
  /\ nInputs < MaxInputs
  /\ nInputs' = nInputs + 1
  /\ last' = [Step(IF wrote THEN "channel:send" ELSE "channel:send:throw", NoPeer, to, wrote)
                EXCEPT !.dialed = {to},
                       !.sent = IF wrote THEN <<data>> ELSE <<>>,
                       !.did = IF wrote THEN {"stream.close"} ELSE {}]
  /\ UNCHANGED <<timers, started, handler, listeners, subscribed, peers, queue, task,
                 inbound, parsing, startPc, stopPc, log, synced, joined,
                 notified, owed>>

(***************************************************************************)
(* Updates on the pubsub topic.                                            *)
(***************************************************************************)
\* A 'message' event reaches engine e: the listener, when attached, is
\* handleUpdateMessage, which first awaits parseMsg(data).
handleUpdateMessage(e, topic, data) ==
  /\ nInputs < MaxInputs
  /\ nInputs' = nInputs + 1
  /\ IF "message" \in listeners[e]
       THEN parsing' = [parsing EXCEPT ![e] = Append(@, [topic |-> topic, data |-> data])]
       ELSE UNCHANGED parsing
  /\ last' = Step("message", e, NoPeer, "message" \in listeners[e])
  /\ UNCHANGED <<timers, started, handler, listeners, subscribed, peers, queue, task,
                 inbound, startPc, stopPc, log, synced, joined, notified, owed>>

\* parseMsg has resolved, and the task is added to the queue `if (topic ===
\* address)`; or it has thrown, and the promise of handleUpdateMessage, which
\* awaits it outside any try, is rejected with nobody to handle it.
updateParsed(e, i) ==
  LET m == parsing[e][i]
      res == parseMsg(m.data)
  IN
  /\ i \in 1..Len(parsing[e])
  /\ parsing' = [parsing EXCEPT ![e] = RemoveAt(@, i)]
  /\ IF ~res.threw /\ m.topic = address
       THEN queue' = [queue EXCEPT ![e] = Append(@, UpdTask(res.heads))]
       ELSE UNCHANGED queue
  /\ last' = [Step(IF res.threw THEN "message:rejected" ELSE "message:parsed",
                   e, NoPeer, ~res.threw) EXCEPT
                !.events = Repeat("error", res.errors),
                !.recv = <<[via |-> "pubsub", topic |-> m.topic,
                            len |-> byteLength(m.data), data |-> m.data]>>]
  /\ UNCHANGED <<timers, started, handler, listeners, subscribed, peers, task, inbound,
                 startPc, stopPc, log, synced, joined, notified, owed, nInputs>>

(***************************************************************************)
(* Specifications.                                                         *)
(***************************************************************************)
\* The engine whose application and network the model drives.
Driven == {"A"}

Next ==
  \/ \E e \in Driven : startSync(e)
  \/ \E e \in Engines : startSyncListen(e)
  \/ \E e \in Engines : startSyncDone(e)
  \/ \E e \in Driven : stopSync(e)
  \/ \E e \in Engines : stopSyncDrained(e)
  \/ \E e \in Engines : stopSyncUnsubscribe(e)
  \/ \E e \in Engines : stopSyncDone(e)
  \/ \E e \in Driven : add(e, GoV1Entry("e1"))
  \/ \E e \in Driven, p \in PeerIds, topic \in Topics, sub \in BOOLEAN :
       handlePeerSubscribed(e, p, topic, sub)
  \/ \E e \in Engines : runTask(e)
  \/ \E e \in Engines : dialOk(e)
  \/ \E e \in Engines : dialUnsupported(e)
  \/ \E e \in Engines, why \in DialErrors : dialFailed(e, why)
  \/ \E e \in Engines : sendOk(e)
  \/ \E e \in Engines : sendFailed(e)
  \/ \E e \in Engines, ok \in BOOLEAN : updateDelivered(e, ok)
  \/ \E e \in Engines, i \in 1..MaxInputs : receiveHeads(e, i)
  \/ \E e \in Engines, i \in 1..MaxInputs, ok \in BOOLEAN : receiveDelivered(e, i, ok)
  \/ \E e \in Driven, pc \in {"data", "ended"}, data \in Payloads :
       remoteStream(e, pc, data, FALSE)
  \/ \E e \in Driven, topic \in Topics, data \in Payloads : handleUpdateMessage(e, topic, data)
  \/ \E e \in Engines, i \in 1..MaxInputs : updateParsed(e, i)

Spec == Init /\ [][Next]_vars

(***************************************************************************)
(* SpecSync: "A" and "B" both constructed with the default start, a        *)
(* transport that loses nothing and an onSynced that never throws.         *)
(***************************************************************************)
RECURSIVE Distinct(_)
Distinct(s) ==
  Len(s) < 2 \/ (Distinct(Tail(s)) /\ \A i \in 2..Len(s) : s[i] # s[1])
Logs == {s \in SeqsUpTo(Entries, MaxHeads) : Distinct(s)}

InitSync ==
  \E logA \in Logs, logB \in {<<>>, <<GoV1Entry("e2")>>} :
    Constructed([e \in Engines |-> TRUE], [e \in Engines |-> IF e = "A" THEN logA ELSE logB])

NextSync ==
  \/ \E e \in Engines, p \in Engines : handlePeerSubscribed(e, p, address, TRUE)
  \/ \E e \in Engines : runTask(e)
  \/ \E e \in Engines : dialOk(e)
  \/ \E e \in Engines : sendOk(e)
  \/ \E e \in Engines, i \in 1..MaxInputs : receiveHeads(e, i)
  \/ \E e \in Engines, i \in 1..MaxInputs : receiveDelivered(e, i, TRUE)
  \/ \E e \in Engines, entry \in Entries : add(e, entry)

SpecSync == InitSync /\ [][NextSync]_vars

(***************************************************************************)
(* SpecOverlap: start() and stop() called without awaiting the call before. *)
(* libp2p.handle rejects a protocol that still has a handler.               *)
(***************************************************************************)
\* start() at any moment: `if (!started)`, then libp2p.handle, which throws
\* while the handler of an earlier start() is still registered.
startSyncOverlapping(e) ==
  /\ nInputs < MaxInputs
  /\ nInputs' = nInputs + 1
  /\ IF started[e]
       THEN /\ UNCHANGED <<handler, startPc>>
            /\ last' = Step("start", e, NoPeer, TRUE)
       ELSE IF handler[e]
         THEN /\ UNCHANGED <<handler, startPc>>
              /\ last' = Step("start:rejected", e, NoPeer, FALSE)
         ELSE /\ startPc[e] = "idle"
              /\ handler' = [handler EXCEPT ![e] = TRUE]
              /\ startPc' = [startPc EXCEPT ![e] = "handle"]
              /\ last' = [Step("start", e, NoPeer, FALSE) EXCEPT !.did = {"handle"}]
  /\ UNCHANGED <<timers, started, listeners, subscribed, peers, queue, task, inbound,
                 parsing, stopPc, log, synced, joined, notified, owed>>

\* stop() at any moment: `if (started)`, then `started = false` and queue.onIdle().
stopSyncOverlapping(e) ==
  /\ nInputs < MaxInputs
  /\ nInputs' = nInputs + 1
  /\ IF started[e]
       THEN /\ stopPc[e] = "idle"
            /\ started' = [started EXCEPT ![e] = FALSE]
            /\ stopPc' = [stopPc EXCEPT ![e] = "drain"]
            /\ owed' = [owed EXCEPT ![e] = [total |-> Len(queue[e]) + Running(e),
                                              left |-> Len(queue[e]) + Running(e)]]
       ELSE UNCHANGED <<started, stopPc, owed>>
  /\ last' = Step("stop", e, NoPeer, started[e])
  /\ UNCHANGED <<timers, handler, listeners, subscribed, peers, queue, task, inbound,
                 parsing, startPc, log, synced, joined, notified>>

NextOverlap ==
  \/ \E e \in Driven : startSyncOverlapping(e)
  \/ \E e \in Driven : startSyncListen(e)
  \/ \E e \in Driven : startSyncDone(e)
  \/ \E e \in Driven : stopSyncOverlapping(e)
  \/ \E e \in Driven : stopSyncDrained(e)
  \/ \E e \in Driven : stopSyncUnsubscribe(e)
  \/ \E e \in Driven : stopSyncDone(e)
  \/ \E e \in Driven, sub \in BOOLEAN : handlePeerSubscribed(e, Remote, address, sub)
  \/ \E e \in Driven : runTask(e)
  \/ \E e \in Driven, why \in DialErrors : dialFailed(e, why)

SpecOverlap == Init /\ [][NextOverlap]_vars

(***************************************************************************)
(* SpecForeign: every envelope that reaches "A", on a stream or on the      *)
(* topic, was marshalled for another log.                                   *)
(***************************************************************************)
\* An envelope of two well-formed heads whose address is not log.id.
ForeignPayloads ==
  {marshal([address |-> OtherTopic,
            heads |-> <<WireHead("e1", "e1"), WireHead("e2", "e2")>>])}

NextForeign ==
  \/ \E e \in Driven : startSync(e)
  \/ \E e \in Driven : startSyncListen(e)
  \/ \E e \in Driven : startSyncDone(e)
  \/ \E e \in Driven, data \in ForeignPayloads : remoteStream(e, "data", data, FALSE)
  \/ \E e \in Driven, i \in 1..MaxInputs : receiveHeads(e, i)
  \/ \E e \in Driven, i \in 1..MaxInputs, ok \in BOOLEAN : receiveDelivered(e, i, ok)
  \/ \E e \in Driven, data \in ForeignPayloads : handleUpdateMessage(e, address, data)
  \/ \E e \in Driven, i \in 1..MaxInputs : updateParsed(e, i)
  \/ \E e \in Driven : runTask(e)
  \/ \E e \in Driven, ok \in BOOLEAN : updateDelivered(e, ok)

SpecForeign == Init /\ [][NextForeign]_vars

(***************************************************************************)
(* SpecFrames: "A" started, and a remote peer whose frames may announce a  *)
(* length that is not the length of the data that follows.                 *)
(***************************************************************************)
InitFrames ==
  Constructed([e \in Engines |-> e = "A"],
              [e \in Engines |-> <<GoV1Entry(IF e = "A" THEN "e1" ELSE "e2")>>])

NextFrames ==
  \/ \E pc \in {"data", "ended"}, data \in Payloads, wrong \in BOOLEAN :
       remoteStream("A", pc, data, wrong)
  \/ \E i \in 1..MaxInputs : receiveHeads("A", i)
  \/ \E i \in 1..MaxInputs, ok \in BOOLEAN : receiveDelivered("A", i, ok)
  \/ \E data \in Payloads, wrong \in BOOLEAN :
       DirectChannelHandle(Remote, IF wrong THEN byteLength(data) + 1 ELSE byteLength(data), data)
  \/ DirectChannelHandleThrows(Remote)
  \/ \E data \in Payloads, wrote \in BOOLEAN : DirectChannelSend(Remote, data, wrote)

SpecFrames == InitFrames /\ [][NextFrames]_vars

(***************************************************************************)
(* Entries (oplog/entry.js).  A JavaScript object is a record; a missing   *)
(* property is a missing field.  Block.encode is BlockBytes / BlockCid of  *)
(* the whole value it is given.                                            *)
(***************************************************************************)
\* {...a, ...b}
Merge(a, b) ==
  [k \in DOMAIN a \cup DOMAIN b |-> IF k \in DOMAIN b THEN b[k] ELSE a[k]]
Has(obj, k) == k \in DOMAIN obj

Null == [null |-> TRUE]
hashStringEncoding == "base58btc"

\* Block.decode({bytes, codec, hasher}): the value and the cid of its bytes.
BlockValue(bytes) == bytes[2]

\* An identity document, and the identity Identity(document) makes of it.
IdentityDocs ==
  {[id |-> "id1", publicKey |-> "pk1", signatures |-> "sg1", type |-> "orbitdb"],
   [id |-> "id2", publicKey |-> "pk2", signatures |-> "sg2", type |-> "orbitdb"]}
IdentityDoc(identity) ==
  [id |-> identity.id, publicKey |-> identity.publicKey,
   signatures |-> identity.signatures, type |-> identity.type]
Identity(doc) == Merge(IdentityDoc(doc), [hash |-> [str |-> <<"identity", IdentityDoc(doc)>>]])
\* identity.sign(identity, bytes) and identities.verify(sig, key, bytes).
sign(identity, bytes) == [signer |-> identity.publicKey, image |-> bytes]
identitiesVerify(sig, key, bytes) == sig = [signer |-> key, image |-> bytes]
Clock(id, time) == [id |-> id, time |-> time]

\* `typeof value.identity == 'string'`: a v2 entry refers to its identity by hash.
IsString(x) == DOMAIN x = {"str"}

\* Payloads: a string, and an operation record whose value is bytes.
IsOp(payload) == Has(payload, "op")
EntryPayloads ==
  {[str |-> "hello"], [op |-> "PUT", key |-> "k", value |-> [u8 |-> "v"]]}
\* payload.value = base64pad.baseEncode(payload.value), and its inverse.
Base64Value(payload) ==
  IF IsOp(payload) /\ Has(payload.value, "u8")
    THEN [payload EXCEPT !.value = [str |-> <<"base64pad", payload.value.u8>>]]
    ELSE payload
Base64Decoded(payload) ==
  IF IsOp(payload) /\ Has(payload.value, "str")
    THEN [payload EXCEPT !.value = [u8 |-> payload.value.str[2]]]
    ELSE payload
\* JSON.stringify(payload) and JSON.parse(payload), which throws on "hello".
JSONStringify(value) == [str |-> <<"json", value>>]
IsJSONText(x) == IsString(x) /\ Len(x.str) = 2 /\ x.str[1] = "json"

\* toUint8Array(JSON.stringify(keyJSONSort(value))): the v1 signing image.
SortedJSONBytes(value) == <<"sorted-json", value>>

ToBase58(cid) == CidToString(cid, hashStringEncoding)

\* encodeGoV1(entry, identity): the go-v1 form of an entry, signed.
encodeGoV1(entry, identity) ==
  LET payload == IF IsOp(entry.payload)
                   THEN JSONStringify(Base64Value(entry.payload))
                   ELSE entry.payload
      v1_next == MapSeq(entry.next, CidParse)
      v1_refs == MapSeq(entry.refs, CidParse)
      value == [hash |-> Null, id |-> entry.id, payload |-> payload,
                next |-> MapSeq(v1_next, ToBase58), refs |-> MapSeq(v1_refs, ToBase58),
                clock |-> entry.clock, v |-> entry.v]
      signature == sign(identity, SortedJSONBytes(value))
      full == Merge(value, [next |-> v1_next, refs |-> v1_refs, sig |-> signature,
                            key |-> identity.publicKey,
                            identity |-> IdentityDoc(Identity(identity))])
  IN  Merge(full, [identity |-> identity,
                   hash |-> CidToString(BlockCid(full), "base32"),
                   bytes |-> BlockBytes(full)])

\* encode(entry): Block.encode of the entry as given, with hash and bytes added.
encode(entry) ==
  Merge(entry, [clock |-> Clock(entry.clock.id, entry.clock.time),
                hash |-> ToBase58(BlockCid(entry)),
                bytes |-> BlockBytes(entry)])

\* create(identity, id, payload, clock, next, refs, ver)
create(identity, id, payload, clock, next, refs, ver) ==
  LET entry == [id |-> id, payload |-> payload, next |-> next, refs |-> refs,
                clock |-> clock, v |-> 2]
  IN  IF ver = "go-v1"
        THEN LET g == encodeGoV1(entry, identity)
             IN  Merge(entry, [payload |-> Base64Value(payload),
                               key |-> identity.publicKey, identity |-> identity.hash,
                               entryGoV1 |-> g, sig |-> g.sig, bytes |-> g.bytes,
                               hash |-> ToBase58(CidParse(g.hash))])
        ELSE encode(Merge(entry, [key |-> identity.publicKey, identity |-> identity.hash,
                                  sig |-> sign(identity, BlockBytes(entry))]))

\* decodeGoV1(entryGoV1): the v2 shape of a go-v1 entry, the go-v1 form attached.
decodeGoV1(g) ==
  LET identity == Identity(g.identity)
      attached == [g EXCEPT !.identity = identity]
      payload == IF IsJSONText(g.payload)
                   THEN Base64Decoded(g.payload.str[2])
                   ELSE g.payload
  IN  [id |-> g.id, payload |-> payload,
       next |-> MapSeq(g.next, ToBase58), refs |-> MapSeq(g.refs, ToBase58),
       clock |-> Clock(g.clock.id, g.clock.time), v |-> 2,
       identity |-> identity.hash, key |-> g.key, sig |-> g.sig,
       entryGoV1 |-> attached]

\* decode(bytes)
decode(bytes) ==
  LET value == BlockValue(bytes)
      cid == BlockCid(value)
      entry == IF ~IsString(value.identity)
                 THEN LET d == decodeGoV1(Merge(value, [bytes |-> bytes]))
                      IN  [d EXCEPT !.entryGoV1 =
                             Merge(@, [hash |-> CidToString(cid, "base32")])]
                 ELSE value
  IN  Merge(entry, [hash |-> ToBase58(cid), bytes |-> bytes])

\* verifyGoV1 checking the signature against the identity's id, not the entry's key.
verifyGoV1ByIdentityId(entry) ==
  LET value == [hash |-> Null, id |-> entry.id, payload |-> entry.payload,
                next |-> MapSeq(entry.next, ToBase58), refs |-> MapSeq(entry.refs, ToBase58),
                clock |-> entry.clock, v |-> entry.v]
  IN  identitiesVerify(entry.sig, entry.identity.id, SortedJSONBytes(value))

\* verifyGoV1(identities, entry)
verifyGoV1(entry) ==
  LET value == [hash |-> Null, id |-> entry.id, payload |-> entry.payload,
                next |-> MapSeq(entry.next, ToBase58), refs |-> MapSeq(entry.refs, ToBase58),
                clock |-> entry.clock, v |-> entry.v]
  IN  identitiesVerify(entry.sig, entry.key, SortedJSONBytes(value))

\* verify(identities, entry)
verify(entry) ==
  IF Has(entry, "entryGoV1")
    THEN verifyGoV1(entry.entryGoV1)
    ELSE identitiesVerify(entry.sig, entry.key,
           BlockBytes([id |-> entry.id, payload |-> entry.payload, next |-> entry.next,
                       refs |-> entry.refs, clock |-> entry.clock, v |-> entry.v]))

\* A call of create, encode or decode: `op` names the calls made so far.
Called(op, value) ==
  /\ nInputs < MaxInputs
  /\ nInputs' = nInputs + 1
  /\ last' = [Step(op, NoPeer, NoPeer, TRUE) EXCEPT !.result = <<value>>]
  /\ UNCHANGED <<timers, started, handler, listeners, subscribed, peers, queue, task,
                 inbound, parsing, startPc, stopPc, log, synced, joined,
                 notified, owed>>

EntryNexts == {<<>>, <<ToBase58(BlockCid("e1"))>>}
Dialects == {"js-v2", "go-v1"}

callCreate(doc, payload, next, ver) ==
  /\ ver \in Dialects
  /\ Called("create:" \o ver,
            create(Identity(doc), address, payload, Clock(doc.publicKey, 0), next, <<>>, ver))
callEncode ==
  /\ last.result # <<>>
  /\ Called(last.op \o ">encode", encode(last.result[1]))
callDecode ==
  /\ last.result # <<>>
  /\ Called(last.op \o ">decode", decode(last.result[1].bytes))

InitEntry ==
  Constructed([e \in Engines |-> FALSE],
              [e \in Engines |-> <<GoV1Entry(IF e = "A" THEN "e1" ELSE "e2")>>])
NextEntry ==
  \/ \E doc \in IdentityDocs, payload \in EntryPayloads, next \in EntryNexts, ver \in Dialects :
       callCreate(doc, payload, next, ver)
  \/ callEncode
  \/ callDecode
SpecEntry == InitEntry /\ [][NextEntry]_vars

(***************************************************************************)
(* Canonical JSON (utils/go-json.js).  A JSON value is a number, an array  *)
(* or an object; an object keeps its properties in insertion order, as a   *)
(* sequence of [k, v] pairs.                                               *)
(***************************************************************************)
MaxNum == 1  \* numbers that occur as leaves of a JSON value

Num(n) == [t |-> "num", n |-> n, items |-> <<>>]
Arr(elements) == [t |-> "arr", n |-> 0, items |-> elements]
Obj(properties) == [t |-> "obj", n |-> 0, items |-> properties]

\* Property names and their code points.
charCodeAt == [a |-> 97, b |-> 98]
KeyOrders == {<<"a">>, <<"a", "b">>, <<"b", "a">>}

ObjectsOf(S) ==
  UNION {{Obj([i \in 1..Len(ks) |-> [k |-> ks[i], v |-> f[i]]]) : f \in [1..Len(ks) -> S]}
         : ks \in KeyOrders}
ArraysOf(S) == {Arr(<<x>>) : x \in S}
\* Numbers; objects of numbers; those and arrays of them inside an object.
JSONValues ==
  LET leaves == {Num(n) : n \in 1..MaxNum}
      inner == ObjectsOf(leaves)
  IN  ObjectsOf(leaves \cup inner \cup ArraysOf(inner)) \cup ArraysOf(inner)

\* Reflect.ownKeys(target).sort(): the properties in ascending key order.
InsertSorted(x, s) ==
  LET after == {i \in 1..Len(s) : charCodeAt[s[i].k] > charCodeAt[x.k]}
  IN  IF after = {}
        THEN Append(s, x)
        ELSE LET j == CHOOSE i \in after : \A i2 \in after : i <= i2
             IN  SubSeq(s, 1, j - 1) \o <<x>> \o SubSeq(s, j, Len(s))
RECURSIVE ownKeysSorted(_)
ownKeysSorted(s) ==
  IF s = <<>> THEN s ELSE InsertSorted(s[Len(s)], ownKeysSorted(SubSeq(s, 1, Len(s) - 1)))

\* The `get` trap: only a value whose class is [object Object] is wrapped again.
IsObject(value) == value.t = "obj"
\* keyJSONSort(obj): whether obj comes back wrapped in the sorting proxy.
keyJSONSort(obj) == obj.t \in {"obj", "arr"}

\* JSON.stringify(value) where `proxied` tells whether value is a keyJSONSort
\* proxy: a proxy lists its keys sorted and hands out its values through `get`.
RECURSIVE SerializeJSON(_, _), SerializeItems(_, _, _, _)
SerializeItems(items, i, isObj, proxied) ==
  IF i > Len(items) THEN ""
  ELSE LET value == IF isObj THEN items[i].v ELSE items[i]
           text == SerializeJSON(value, proxied /\ IsObject(value))
           member == IF isObj THEN items[i].k \o ":" \o text ELSE text
       IN  (IF i > 1 THEN "," ELSE "") \o member
             \o SerializeItems(items, i + 1, isObj, proxied)
SerializeJSON(value, proxied) ==
  IF value.t = "num" THEN ToString(value.n)
  ELSE IF value.t = "arr" THEN "[" \o SerializeItems(value.items, 1, FALSE, proxied) \o "]"
  ELSE "{" \o SerializeItems(IF proxied THEN ownKeysSorted(value.items) ELSE value.items,
                             1, TRUE, proxied) \o "}"

\* JSON.stringify(keyJSONSort(value)): the text of the v1 signing image.
sortedJSON(value) == SerializeJSON(value, keyJSONSort(value))
\* JSON.stringify(msg, goJSONReplacer): the text marshal sends under 'go-v1'.
marshalJSON(msg) == SerializeJSON(msg, FALSE)

\* The value with the keys of every object, at every level, in ascending order.
RECURSIVE Sorted(_)
Sorted(value) ==
  IF value.t = "num" THEN value
  ELSE IF value.t = "arr"
    THEN Arr([i \in 1..Len(value.items) |-> Sorted(value.items[i])])
    ELSE LET s == ownKeysSorted(value.items)
         IN  Obj([i \in 1..Len(s) |-> [k |-> s[i].k, v |-> Sorted(s[i].v)]])
\* w is v with the keys of some of its objects reordered.
IsPermutationOf(w, v) == Sorted(w) = Sorted(v)

Serialized(op, value) ==
  [value |-> value,
   text |-> IF op = "keyJSONSort" THEN sortedJSON(value) ELSE marshalJSON(value)]
Serializers == {"keyJSONSort", "marshal"}

\* A first value is serialized.
callSerialize(op, value) ==
  /\ last.op = "init"
  /\ nInputs < MaxInputs
  /\ nInputs' = nInputs + 1
  /\ last' = [Step(op, NoPeer, NoPeer, TRUE) EXCEPT !.result = <<Serialized(op, value)>>]
  /\ UNCHANGED <<timers, started, handler, listeners, subscribed, peers, queue, task,
                 inbound, parsing, startPc, stopPc, log, synced, joined,
                 notified, owed>>

\* The same value with its keys in another order is serialized the same way.
callSerializePermuted(value) ==
  /\ last.op \in Serializers
  /\ Len(last.result) = 1
  /\ IsPermutationOf(value, last.result[1].value)
  /\ nInputs < MaxInputs
  /\ nInputs' = nInputs + 1
  /\ last' = [Step(last.op, NoPeer, NoPeer, TRUE)
                EXCEPT !.result = Append(last.result, Serialized(last.op, value))]
  /\ UNCHANGED <<timers, started, handler, listeners, subscribed, peers, queue, task,
                 inbound, parsing, startPc, stopPc, log, synced, joined,
                 notified, owed>>

InitJSON == InitEntry
NextJSON ==
  \/ \E op \in Serializers, value \in JSONValues : callSerialize(op, value)
  \/ \E value \in JSONValues : callSerializePermuted(value)

SpecJSON == InitJSON /\ [][NextJSON]_vars

(***************************************************************************)
(* The marshaler in both dialects (marshaler.js): the module's own         *)
(* marshal / unmarshal, which take the dialect as an argument, and the     *)
(* pair builderMarshaler(ver) returns.  A call returns a value or throws.  *)
(***************************************************************************)
Returned(value) == [threw |-> FALSE, value |-> value]
Thrown(error) == [threw |-> TRUE, value |-> error]

\* marshal(msg, address, ver)
marshalerMarshal(msg, ver) ==
  IF ver = "go-v1" THEN Returned(marshal(msg)) ELSE Returned(msg)

\* unmarshal(payload, address, ver): the js-v2 branch returns `bytes`, a name
\* that is bound nowhere, so evaluating it throws a ReferenceError.
marshalerUnmarshal(payload, ver) ==
  IF ver = "go-v1"
    THEN IF unmarshalThrows(payload)
           THEN Thrown("SyntaxError")
           ELSE Returned(unmarshal(payload))
    ELSE Thrown("ReferenceError")

\* builderMarshaler(ver).marshal(msg)
builderMarshalerMarshal(ver, msg) ==
  IF ver = "go-v1" THEN Returned(marshal(msg)) ELSE Returned(msg)

\* builderMarshaler(ver).unmarshal(payload)
builderMarshalerUnmarshal(ver, payload) ==
  IF ver = "go-v1"
    THEN IF unmarshalThrows(payload)
           THEN Thrown("SyntaxError")
           ELSE Returned(unmarshal(payload))
    ELSE Returned(payload)

Marshalers == {"marshaler", "builderMarshaler"}
Envelopes == {[address |-> a, heads |-> h] : a \in Topics, h \in SeqsUpTo(WireHeads, MaxHeads)}

MarshalCall(which, ver, msg) ==
  [ver |-> ver, arg |-> msg,
   ret |-> IF which = "marshaler" THEN marshalerMarshal(msg, ver)
                                  ELSE builderMarshalerMarshal(ver, msg)]
UnmarshalCall(which, ver, payload) ==
  [ver |-> ver, arg |-> payload,
   ret |-> IF which = "marshaler" THEN marshalerUnmarshal(payload, ver)
                                  ELSE builderMarshalerUnmarshal(ver, payload)]

\* An envelope is marshalled.
callMarshal(which, ver, msg) ==
  /\ last.op = "init"
  /\ nInputs < MaxInputs
  /\ nInputs' = nInputs + 1
  /\ last' = [Step(which \o ".marshal", NoPeer, NoPeer, TRUE)
                EXCEPT !.result = <<MarshalCall(which, ver, msg)>>]
  /\ UNCHANGED <<timers, started, handler, listeners, subscribed, peers, queue, task,
                 inbound, parsing, startPc, stopPc, log, synced, joined,
                 notified, owed>>

\* What marshal returned is unmarshalled by the same marshaler.
callUnmarshal(which) ==
  /\ last.op = which \o ".marshal"
  /\ ~last.result[1].ret.threw
  /\ nInputs < MaxInputs
  /\ nInputs' = nInputs + 1
  /\ last' = [Step(which \o ".unmarshal", NoPeer, NoPeer, TRUE)
                EXCEPT !.result =
                  Append(last.result,
                         UnmarshalCall(which, last.result[1].ver, last.result[1].ret.value))]
  /\ UNCHANGED <<timers, started, handler, listeners, subscribed, peers, queue, task,
                 inbound, parsing, startPc, stopPc, log, synced, joined,
                 notified, owed>>

InitMarshaler == InitEntry
NextMarshaler ==
  \/ \E which \in Marshalers, ver \in Dialects, msg \in Envelopes : callMarshal(which, ver, msg)
  \/ \E which \in Marshalers : callUnmarshal(which)

SpecMarshaler == InitMarshaler /\ [][NextMarshaler]_vars

(***************************************************************************)
(* Addresses (address.js).  A string is the sequence of its pieces: the    *)
(* text "/orbitdb", a single "/", the two halves of the text of one        *)
(* content identifier ("Qm" "Abc"), or another character.  No piece but    *)
(* "/" and "/orbitdb" holds a slash, so a string has one such spelling.    *)
(***************************************************************************)
MaxAddressLen == 6  \* pieces of an address string

Pieces == {"/orbitdb", "/", "Qm", "Abc", "x"}
Strings == SeqsUpTo(Pieces, MaxAddressLen)

startsWith(s, prefix) == Len(s) >= Len(prefix) /\ SubSeq(s, 1, Len(prefix)) = prefix

\* s.replaceAll('/orbitdb/', ''): every occurrence, left to right.
RECURSIVE replaceAll(_)
replaceAll(s) ==
  IF s = <<>> THEN s
  ELSE IF startsWith(s, <<"/orbitdb", "/">>)
    THEN replaceAll(SubSeq(s, 3, Len(s)))
    ELSE <<Head(s)>> \o replaceAll(Tail(s))

\* const [hash] = s.split('/'): what precedes the first slash.  "/orbitdb"
\* begins with a slash, so it ends the segment as well.
RECURSIVE firstSegment(_)
firstSegment(s) ==
  IF s = <<>> \/ Head(s) \in {"/", "/orbitdb"} THEN <<>>
  ELSE <<Head(s)>> \o firstSegment(Tail(s))

\* CID.parse(hash) returns a CID for the text of a CID and throws otherwise.
CIDParses(hash) == hash = <<"Qm", "Abc">>

\* isValidAddress(address)
isValidAddress(s) ==
  IF ~startsWith(s, <<"/orbitdb">>)
    THEN FALSE
    ELSE CIDParses(firstSegment(replaceAll(s)))

\* One call, on any string.
callIsValidAddress(s) ==
  /\ last.op = "init"
  /\ nInputs < MaxInputs
  /\ nInputs' = nInputs + 1
  /\ last' = [Step("isValidAddress", NoPeer, NoPeer, TRUE)
                EXCEPT !.result = <<[arg |-> s, ret |-> isValidAddress(s)]>>]
  /\ UNCHANGED <<timers, started, handler, listeners, subscribed, peers, queue, task,
                 inbound, parsing, startPc, stopPc, log, synced, joined,
                 notified, owed>>

InitAddress == InitEntry
NextAddress == \E s \in Strings : callIsValidAddress(s)
SpecAddress == InitAddress /\ [][NextAddress]_vars

(***************************************************************************)
(* Properties.                                                             *)
(***************************************************************************)
\* Everything of engine e an application or a peer can observe.
EngineState(e) ==
  <<started[e], handler[e], listeners[e], subscribed[e], peers[e], queue[e],
    task[e], inbound[e], parsing[e], startPc[e], stopPc[e], synced[e], joined[e]>>

NoEffect(l) ==
  /\ l.events = <<>> /\ l.dialed = {} /\ l.sent = <<>>
  /\ l.published = <<>> /\ l.synced = <<>> /\ l.did = {}

\* Between stop() returning (or construction with start: false) and the next start().
Stopped(e) == ~started[e] /\ startPc[e] = "idle" /\ stopPc[e] = "idle"

\* Nothing is queued, running or in flight at either engine.
Quiescent ==
  \A e \in Engines : queue[e] = <<>> /\ task[e] = NoTask /\ inbound[e] = <<>>

\* The bytes onSynced is to be invoked with for the heads of engine e's log.
HeadsBytes(e) == {BlockBytes(log[e][i].body) : i \in 1..Len(log[e])}
AllGoV1(e) == \A i \in 1..Len(log[e]) : log[e][i].goV1

\* C1: "A" is started holding one go-v1 head H, "B" has subscribed and "A" has
\* handled B's subscribe event; once nothing is in flight any more, B's onSynced
\* has been invoked with the bytes of H and B has emitted join for "A".
C1_InitialSync ==
  (Len(log["A"]) = 1 /\ AllGoV1("A") /\ "B" \in notified["A"] /\ Quiescent) =>
    (HeadsBytes("A") \subseteq synced["B"] /\ "A" \in joined["B"])

\* C2: both engines started, each has handled the other's subscribe event and
\* nothing is in flight any more: each engine's onSynced has been invoked with
\* every head the other holds.
C2_MutualExchange ==
  (/\ "B" \in notified["A"] /\ "A" \in notified["B"]
   /\ AllGoV1("A") /\ AllGoV1("B") /\ Quiescent) =>
    (HeadsBytes("A") \subseteq synced["B"] /\ HeadsBytes("B") \subseteq synced["A"])

\* C3: when start() returns the engine is started with the handler registered,
\* the topic subscribed and both listeners attached; start() on a started
\* engine registers, subscribes and attaches nothing and changes no state.
C3_StartedAfterStart ==
  last.op = "start:done" =>
    /\ started[last.eng] /\ handler[last.eng] /\ subscribed[last.eng]
    /\ listeners[last.eng] = AllListeners
C3_StartAgainIsNoop ==
  \A e \in Engines :
    (last'.op = "start" /\ last'.pre /\ last'.eng = e) =>
      NoEffect(last') /\ EngineState(e)' = EngineState(e)
C3_StartIdempotent == [](C3_StartedAfterStart) /\ [][C3_StartAgainIsNoop]_vars
C3_Witness ==
  /\ last.op = "start" /\ last.pre /\ last.eng = "A"
  /\ started["A"] /\ handler["A"] /\ subscribed["A"] /\ listeners["A"] = AllListeners

\* C4: when stop() returns the engine is not started, its listeners and its
\* handler are removed, it is unsubscribed and its peer set is empty; stop()
\* on a stopped engine changes no state.
C4_StoppedAfterStop ==
  last.op = "stop:done" =>
    /\ ~started[last.eng] /\ ~handler[last.eng] /\ ~subscribed[last.eng]
    /\ listeners[last.eng] = {} /\ peers[last.eng] = {}
C4_StopAgainIsNoop ==
  \A e \in Engines :
    (last'.op = "stop" /\ ~last'.pre /\ last'.eng = e) =>
      NoEffect(last') /\ EngineState(e)' = EngineState(e)
C4_StopIdempotent == [](C4_StoppedAfterStop) /\ [][C4_StopAgainIsNoop]_vars
\* stop() has returned after clearing a peer set that was not empty
C4_Witness == last.op = "stop:done" /\ last.pre /\ Stopped(last.eng)

\* C5: stop() gets past queue.onIdle() only when every task that was enqueued
\* when it was called has finished; a subscription-change or message event
\* that arrives once stop() has returned dials nobody, invokes no onSynced,
\* emits nothing and changes no state of the engine.
C5_Drained ==
  \A e \in Engines :
    (stopPc[e] \in {"unhandle", "unsubscribe"} \/ (last.op = "stop:done" /\ last.eng = e)) =>
      owed[e].left = 0
C5_LateEventIgnored ==
  \A e \in Engines :
    (last'.op \in {"subscription-change", "message"} /\ last'.eng = e /\ Stopped(e)) =>
      NoEffect(last') /\ EngineState(e)' = EngineState(e)
C5_StopDrains == [](C5_Drained) /\ [][C5_LateEventIgnored]_vars
\* an event arrives at an engine whose stop() waited for two enqueued tasks
C5_Witness ==
  /\ last.op \in {"subscription-change", "message"} /\ last.eng = "A"
  /\ Stopped("A") /\ owed["A"].total >= 2 /\ owed["A"].left = 0

\* C6: add(entry) on a started engine makes exactly one publish, on the log's
\* topic; on an engine that is not started it publishes nothing; either way
\* the state of the engine is unchanged.
C6_AddStep ==
  \A e \in Engines :
    (last'.op = "add" /\ last'.eng = e) =>
      /\ started[e] => (Len(last'.published) = 1 /\ last'.published[1].topic = address)
      /\ ~started[e] => last'.published = <<>>
      /\ last'.events = <<>> /\ last'.dialed = {} /\ last'.sent = <<>> /\ last'.synced = <<>>
      /\ EngineState(e)' = EngineState(e)
C6_AddPublishesIffStarted == [][C6_AddStep]_vars
C6_Witness == last.op = "add" /\ last.eng = "A" /\ started["A"] /\ Len(last.published) = 1

\* The heads of an envelope expected for the entries hs: the wire form of
\* every entry of hs that has a go-v1 form, in the order of hs.
IsGoV1(entry) == entry.goV1
ExpectedHead(entry) == WireHead(entry.body, entry.body)
ExpectedHeads(hs) == MapSeq(SelectSeq(hs, IsGoV1), ExpectedHead)
\* The envelope a step built, if it built one.
Built(l) ==
  IF l.op = "send:ok" THEN l.sent
  ELSE IF l.op = "add" THEN MapSeq(l.published, LAMBDA m : m.data)
  ELSE <<>>

\* C7 as stated: the envelope has one head for each entry it was built for.
C7_EveryEntryCarried ==
  \A i \in 1..Len(Built(last)) : Len(Built(last)[i].heads) = Len(last.heads)

\* C7: the envelope sent on a subscribe event and the envelope add(entry)
\* publishes carry the log's address and, in order, the wire form of exactly
\* those entries that have a go-v1 form; an entry without one is left out.
C7_GoV1EntriesCarried ==
  \A i \in 1..Len(Built(last)) :
    /\ ~unmarshalThrows(Built(last)[i])
    /\ unmarshal(Built(last)[i]) = [address |-> address, heads |-> ExpectedHeads(last.heads)]
\* heads are sent for a log of one go-v1 entry and one entry without a go-v1 form
C7_Witness ==
  /\ last.op = "send:ok" /\ Len(last.heads) = 2
  /\ Len(last.sent) = 1 /\ Len(last.sent[1].heads) = 1

\* C8: the task of a subscribe event for a peer already in the peer set dials
\* nobody, sends nothing, emits nothing and leaves the peer set as it was.
C8_KnownPeerStep ==
  \A e \in Engines :
    (last'.op = "task:subscribe" /\ last'.eng = e /\ last'.peer \in peers[e]) =>
      /\ NoEffect(last')
      /\ peers'[e] = peers[e] /\ task'[e] = NoTask /\ inbound' = inbound
C8_KnownPeerIgnored == [][C8_KnownPeerStep]_vars
C8_Witness ==
  last.op = "task:subscribe" /\ last.pre /\ last.peer \in peers[last.eng]

\* C9: a dial that fails with ERR_UNSUPPORTED_PROTOCOL removes the peer from
\* the peer set and emits no event.
C9_UnsupportedIsSilent ==
  last.op = "dial:unsupported" =>
    (last.peer \notin peers[last.eng] /\ last.events = <<>> /\ task[last.eng] = NoTask)
C9_Witness == last.op = "dial:unsupported" /\ last.peer \notin peers[last.eng]

\* C10: a dial or a send that fails in any other way, the timeout included,
\* emits exactly one error event, and the peer is not in the peer set when the
\* task has finished.
C10_FailureReported ==
  last.op \in {"dial:timeout", "dial:error", "send:error"} =>
    (last.events = <<"error">> /\ last.peer \notin peers[last.eng] /\ task[last.eng] = NoTask)
C10_Witness == last.op = "dial:timeout" /\ last.events = <<"error">>

\* C11: the task of an unsubscribe event from peer P for the log's topic
\* removes P (and nobody else) from the peer set and emits leave(P), and
\* nothing else; when it has run P is not in the peer set.
C11_UnsubscribeStep ==
  \A e \in Engines :
    (last'.op = "task:unsubscribe" /\ last'.eng = e) =>
      /\ peers'[e] = peers[e] \ {last'.peer}
      /\ last'.peer \notin peers'[e]
      /\ last'.events = <<"leave">> /\ last'.dialed = {} /\ last'.sent = <<>>
      /\ task'[e] = NoTask
C11_UnsubscribeLeaves == [][C11_UnsubscribeStep]_vars
\* the unsubscribe task has run for a peer that was in the peer set
C11_Witness ==
  last.op = "task:unsubscribe" /\ last.pre /\ last.peer \notin peers[last.eng]

\* A head whose advertised hash is the content identifier of its fields.
GoodHead(h) == h.hash = BlockCid(h.fields[2])
BytesOfHead(h) == BlockBytes(h.fields[2])
IsError(ev) == ev = "error"
\* The bytes onSynced is owed for a decodable envelope: those of its good heads, in order.
ToDeliver(data) == MapSeq(SelectSeq(data.heads, GoodHead), BytesOfHead)
BadHeads(data) == Len(data.heads) - Len(SelectSeq(data.heads, GoodHead))

\* C12 (parsing): for a decodable envelope received on a stream or on the
\* log's topic, one error event is emitted per head whose recomputed CID
\* differs from its advertised hash, and exactly the other heads are handed
\* on for onSynced, in order: the first is delivered (stream) or the task
\* that delivers them is enqueued (pubsub).
C12_Parsed ==
  \A i \in 1..Len(last.recv) :
    LET m == last.recv[i]
        e == last.eng
        due == ToDeliver(m.data)
    IN  ~unmarshalThrows(m.data) =>
          /\ Len(SelectSeq(last.events, IsError)) = BadHeads(m.data)
          /\ m.via = "stream" =>
               IF due = <<>>
                 THEN last.synced = <<>> /\ last.op = "receive:end"
                 ELSE /\ last.synced = <<Head(due)>>
                      /\ \E k \in 1..Len(inbound[e]) :
                           /\ inbound[e][k].from = last.peer
                           /\ inbound[e][k].pc = "deliver"
                           /\ inbound[e][k].rest = Tail(due)
          /\ (m.via = "pubsub" /\ m.topic = address) =>
               (queue[e] # <<>> /\ queue[e][Len(queue[e])] = UpdTask(due))
\* C12 (delivery): each head handed on is passed to onSynced in its turn.
C12_DeliveryStep ==
  \A e \in Engines :
    /\ (last'.op = "task:update" /\ last'.eng = e /\ queue[e] # <<>>) =>
         LET hs == Head(queue[e]).heads IN
           IF hs = <<>> THEN last'.synced = <<>>
           ELSE last'.synced = <<Head(hs)>> /\ task'[e].rest = Tail(hs)
    /\ (last'.op = "update:next" /\ last'.eng = e /\ task[e].rest # <<>>) =>
         (last'.synced = <<Head(task[e].rest)>> /\ task'[e].rest = Tail(task[e].rest))
    /\ (last'.op = "receive:next" /\ last'.eng = e /\ inbound'[e] # inbound[e]) =>
         \E k \in 1..Len(inbound[e]) :
           /\ inbound[e][k].pc = "deliver" /\ inbound[e][k].rest # <<>>
           /\ last'.synced = <<Head(inbound[e][k].rest)>>
           /\ inbound'[e] = [inbound[e] EXCEPT ![k].rest = Tail(@)]
C12_MismatchIsPerHead == [](C12_Parsed) /\ [][C12_DeliveryStep]_vars
\* an envelope whose second head of three has a wrong hash was parsed: one
\* error, the first head delivered and the third one due
C12_Witness ==
  /\ last.op = "receive:heads" /\ last.events = <<"error">>
  /\ last.synced = <<BlockBytes("e1")>>
  /\ \E k \in 1..Len(inbound[last.eng]) :
       inbound[last.eng][k].pc = "deliver" /\ inbound[last.eng][k].rest = <<BlockBytes("e2")>>

IsJoin(ev) == ev = "join"
Joins(l) == Len(SelectSeq(l.events, IsJoin))

\* C13: a join is emitted only by the step that ends an inbound exchange, at
\* most once, after the envelope was decoded and its last valid head
\* delivered, and exactly when the engine is started at that step; a step
\* whose decoding or delivery fails emits none.
C13_JoinOnlyAtEnd ==
  /\ Joins(last) > 0 => (last.op = "receive:end" /\ Joins(last) = 1)
  /\ last.op = "receive:throw" => Joins(last) = 0
C13_JoinStep ==
  \A e \in Engines :
    (last'.op = "receive:end" /\ last'.eng = e /\ inbound'[e] # inbound[e]) =>
      /\ Joins(last') = (IF started[e] THEN 1 ELSE 0)
      /\ \E k \in 1..Len(inbound[e]) :
           /\ inbound'[e] = RemoveAt(inbound[e], k)
           /\ inbound[e][k].from = last'.peer
           /\ \/ inbound[e][k].pc = "deliver" /\ inbound[e][k].rest = <<>>
              \/ /\ inbound[e][k].pc = "data"
                 /\ ~unmarshalThrows(inbound[e][k].data)
                 /\ ToDeliver(inbound[e][k].data) = <<>>
C13_JoinAfterDecodeIfStarted == [](C13_JoinOnlyAtEnd) /\ [][C13_JoinStep]_vars
\* an exchange ended on an engine that is not started: heads delivered, no join
C13_Witness ==
  /\ last.op = "receive:end" /\ ~last.pre /\ last.events = <<>>
  /\ ~started[last.eng] /\ synced[last.eng] # {}

\* C14: a message received on a direct-channel stream, by DirectChannel or by
\* the engine's head exchange, whose announced length is not the length of
\* its payload results in no channel-message, onSynced call, join or error.
C14_LengthMismatchDropped ==
  \A i \in 1..Len(last.recv) :
    (last.recv[i].via \in {"stream", "channel"}
       /\ last.recv[i].len # byteLength(last.recv[i].data)) =>
      (last.events = <<>> /\ last.synced = <<>>)

\* C15: every failure a peer or the network causes is reported as an error
\* event and never raised: a failed dial or send and a failed inbound
\* exchange emit one error, an undecodable envelope emits an error and
\* rejects no handler, and a decodable one emits one error per bad head.
C15_FailuresReported ==
  /\ last.op \in {"dial:timeout", "dial:error", "send:error", "receive:throw"} =>
       Len(SelectSeq(last.events, IsError)) = 1
  /\ last.op # "message:rejected"
  /\ \A i \in 1..Len(last.recv) :
       IF unmarshalThrows(last.recv[i].data) /\ last.recv[i].via # "channel"
         THEN Len(SelectSeq(last.events, IsError)) = 1
         ELSE last.recv[i].via # "channel" =>
                Len(SelectSeq(last.events, IsError)) = BadHeads(last.recv[i].data)

CreatedOps == {"create:" \o ver : ver \in Dialects}
RoundTripOps == {op \o ">encode>decode" : op \in CreatedOps}

C17_HashOfEncodeIsHash ==
  \A i \in 1..Len(last.result) :
    Has(last.result[i], "hash") => encode(last.result[i]).hash = last.result[i].hash

\* C18: canonical JSON is stable under permutation of object keys at every
\* nesting level: a value and the same value with the keys of any of its
\* objects reordered (objects nested in objects and in arrays included)
\* serialize to the same text.
C18_StableUnderPermutation ==
  (last.op \in Serializers /\ Len(last.result) = 2)
    => last.result[1].text = last.result[2].text

MarshalerOps == {m \o f : m \in Marshalers, f \in {".marshal", ".unmarshal"}}

\* C19: in the v2 dialect the marshaler is the identity in both directions:
\* marshal returns the envelope it was given, unmarshal returns the payload it
\* was given, and so unmarshal(marshal(envelope)) is the envelope.
C19_V2MarshalerIsIdentity ==
  (last.op \in MarshalerOps /\ last.result[1].ver = "js-v2")
    => /\ \A i \in 1..Len(last.result) :
            /\ ~last.result[i].ret.threw
            /\ last.result[i].ret.value = last.result[i].arg
       /\ Len(last.result) = 2 => last.result[2].ret.value = last.result[1].arg

\* C20: isValidAddress(s) is true if and only if s starts with '/orbitdb/' and
\* the first path segment after that prefix parses as a content identifier.
C20_ValidIffPrefixAndCid ==
  last.op = "isValidAddress"
    => LET s == last.result[1].arg
       IN  last.result[1].ret
             <=> /\ startsWith(s, <<"/orbitdb", "/">>)
                 /\ CIDParses(firstSegment(SubSeq(s, 3, Len(s))))

\* The outbound head exchange engine e is in the middle of, if any.
Outbound(e) == IF task[e].kind \in {"dial", "send"} THEN 1 ELSE 0

\* C21: at most one head exchange is in progress at any time: the outbound
\* dial-and-send tasks running plus the inbound stream handlers running are
\* at most one, at every engine.
C21_AtMostOneExchange ==
  \A e \in Engines : Outbound(e) + Len(inbound[e]) <= 1

\* C22: subscription-change events are handled one at a time in arrival
\* order: an event's task joins the end of the queue, and a task begins only
\* when the task before it has finished (its dial and send included), and it
\* is the oldest one waiting.
C22_QueueStep ==
  \A e \in Engines :
    /\ queue'[e] # queue[e] =>
         \/ /\ Len(queue'[e]) = Len(queue[e]) + 1
            /\ SubSeq(queue'[e], 1, Len(queue[e])) = queue[e]
         \/ /\ task[e] = NoTask
            /\ queue[e] # <<>>
            /\ queue'[e] = Tail(queue[e])
    /\ (last'.op = "subscription-change" /\ last'.eng = e /\ last'.pre) =>
         /\ Len(queue'[e]) = Len(queue[e]) + 1
         /\ queue'[e][Len(queue'[e])].kind = "sub"
         /\ queue'[e][Len(queue'[e])].peer = last'.peer
    /\ (Outbound(e) = 1 /\ task'[e] # task[e]) =>
         (last'.eng = e /\ last'.op \in {"dial:ok", "dial:unsupported", "dial:timeout",
                                          "dial:error", "send:ok", "send:error"})
C22_InArrivalOrder == [][C22_QueueStep]_vars
\* the task of a first event is sending its heads while a second event waits
C22_Witness ==
  \E e \in Engines :
    /\ task[e].kind = "send"
    /\ queue[e] # <<>> /\ Head(queue[e]).kind = "sub"

\* C23: within one envelope received on the topic, onSynced is invoked for
\* the accepted heads in the order of the envelope's heads array, each call
\* returning before the next is made, and while the envelope's task runs no
\* head of another envelope is delivered by the queue.
C23_EnvelopeStep ==
  \A e \in Engines :
    /\ (last'.op = "message:parsed" /\ last'.eng = e /\ queue'[e] # queue[e]) =>
         queue'[e] = Append(queue[e], UpdTask(ToDeliver(last'.recv[1].data)))
    /\ (last'.op = "task:update" /\ last'.eng = e /\ last'.synced # <<>>) =>
         /\ task[e] = NoTask /\ queue[e] # <<>>
         /\ last'.synced = <<Head(Head(queue[e]).heads)>>
         /\ task'[e].rest = Tail(Head(queue[e]).heads)
    /\ (task[e].kind = "upd" /\ task'[e] # task[e]) =>
         /\ last'.eng = e /\ last'.op \in {"update:next", "update:end"}
         /\ last'.op = "update:next" =>
              /\ task[e].rest # <<>>
              /\ last'.synced = <<Head(task[e].rest)>>
              /\ task'[e].rest = Tail(task[e].rest)
    /\ (task[e].kind = "upd" /\ last'.eng = e /\ last'.synced # <<>>
          /\ last'.op \in {"task:update", "update:next"}) =>
         last'.op = "update:next"
    /\ (last'.op = "receive:heads" /\ last'.eng = e) =>
         \E k \in 1..Len(inbound[e]) :
           /\ inbound[e][k].pc = "data"
           /\ ~unmarshalThrows(inbound[e][k].data)
           /\ ToDeliver(inbound[e][k].data) # <<>>
           /\ last'.synced = <<Head(ToDeliver(inbound[e][k].data))>>
           /\ inbound'[e] = [inbound[e] EXCEPT
                               ![k].pc = "deliver",
                               ![k].rest = Tail(ToDeliver(inbound[e][k].data))]
    /\ (last'.op = "receive:next" /\ last'.eng = e) =>
         \E k \in 1..Len(inbound[e]) :
           /\ inbound[e][k].pc = "deliver" /\ inbound[e][k].rest # <<>>
           /\ last'.synced = <<Head(inbound[e][k].rest)>>
           /\ inbound'[e] = [inbound[e] EXCEPT ![k].rest = Tail(@)]
C23_DeliveredInOrder == [][C23_EnvelopeStep]_vars
\* the second accepted head of an envelope is delivered after the first
C23_Witness ==
  /\ last.op = "update:next" /\ last.synced = <<BlockBytes("e2")>>
  /\ BlockBytes("e1") \in synced[last.eng]

\* C24: the timeout token of an outbound dial is armed exactly while the
\* subscribe task is dialing or sending: whether the task ends with the heads
\* sent, with unsupported-protocol, with another error or with the timeout,
\* no token is left armed once it has finished.
C24_TokenReleased ==
  \A e \in Engines : timers[e] = Outbound(e)
\* a dial that timed out has ended its task
C24_Witness ==
  /\ last.op = "dial:timeout" /\ last.dialed = {}
  /\ task[last.eng] = NoTask /\ timers[last.eng] = 0

\* The steps that end an exchange over a stream.
ExchangeEnds ==
  {"channel", "channel:throw", "channel:send", "channel:send:throw",
   "send:ok", "send:error", "receive:end", "receive:throw"}

\* C25: every stream opened or accepted for an exchange is closed on every
\* exit path: the step that ends an exchange, normally or with a failure of
\* reading, decoding or writing, has closed the stream (stream.close(), or at
\* least the return of its source).
C25_StreamsClosed ==
  last.op \in ExchangeEnds => last.did \cap {"stream.close", "source.return"} # {}

\* C26: while an engine is started, every peer a join was emitted for, with no
\* leave emitted for it since, is a member of the engine's peer set.
C26_JoinedArePeers ==
  \A e \in Engines : started[e] => joined[e] \subseteq peers[e]

\* C27: once every start() and stop() call has completed, started is true if
\* and only if the direct-channel handler is registered, the pubsub
\* listeners are attached and the engine is subscribed to the log's topic.
C27_StartedIffWired ==
  \A e \in Engines :
    (startPc[e] = "idle" /\ stopPc[e] = "idle") =>
      (started[e] <=> (handler[e] /\ listeners[e] = AllListeners /\ subscribed[e]))

\* C28: from the moment stop() has completed (or before the first start() has
\* completed) until the next start() completes, no step of the engine invokes
\* onSynced or emits join.
C28_StoppedStep ==
  \A e \in Engines :
    (~started[e] /\ stopPc[e] = "idle" /\ last'.eng = e) =>
      (last'.synced = <<>> /\ Joins(last') = 0)
C28_SilentWhileStopped == [][C28_StoppedStep]_vars

\* C29: a heads envelope whose address field is not the local log's address
\* has none of its heads passed to onSynced: where every envelope received
\* is such an envelope, onSynced is never invoked.
C29_ForeignEnvelopeDropped ==
  /\ \A e \in Engines : synced[e] = {}
  /\ last.synced = <<>>

\* C30: a pubsub message whose topic is not the log's address enqueues no
\* task, causes no onSynced call, emits no join, leave or error event and
\* leaves the peer set unchanged.
C30_OtherTopicStep ==
  \A e \in Engines :
    (/\ last'.eng = e
     /\ last'.op \in {"message:parsed", "message:rejected"}
     /\ last'.recv[1].topic # address) =>
      /\ queue'[e] = queue[e]
      /\ peers'[e] = peers[e]
      /\ last'.synced = <<>>
      /\ last'.events = <<>>
C30_OtherTopicNoEffect == [][C30_OtherTopicStep]_vars

====
